---- MODULE Spec2Model ----
(***************************************************************************)
(* The routing oracle pipeline (oracle-pipeline.ts): routeAndValidate,     *)
(* fetchWeather, voteOnQuality, computeAccuracy and runOraclePipeline,     *)
(* with the zod response schemas of types.ts they parse with.              *)
(*                                                                         *)
(* Representation.                                                         *)
(*   - A model name (recommended_model, acceptableModels[i]) is a sequence *)
(*     of one-character strings, so that String.prototype.includes is      *)
(*     computed and not assumed.  Every other string is opaque.            *)
(*   - A JS number holding an accuracy is [thousandths |-> n]: the value   *)
(*     n/1000.  Math.round(x * 1000) / 1000 is computed on the exact       *)
(*     fraction; for lists of fewer than 400 validations the IEEE double   *)
(*     computation gives the same thousandth.                              *)
(*   - null is the record Null; a local not yet assigned is Unassigned.    *)
(*   - A value returned by the tool caller is a "raw" record: kind says    *)
(*     whether it is an object at all and has names the fields that are    *)
(*     present with the type the schema wants.                             *)
(*   - A completion is [threw |-> TRUE] or [threw |-> FALSE, value |-> v]. *)
(***************************************************************************)
EXTENDS Integers, Sequences, FiniteSets, TLC

VARIABLES
    config,       \* the OracleConfig the run was started with
    pc,           \* position of runOraclePipeline
    idx,          \* position of the for-of loop over config.expectations
    validations,  \* const validations: RoutingValidation[]
    accuracy,     \* const accuracy
    weather,      \* let weather
    voteResult,   \* let voteResult
    calls,        \* every caller.call made so far, with how it settled
    status,       \* the promise runOraclePipeline returned: pending, fulfilled, rejected
    report,       \* the value the promise was fulfilled with
    fnArg,        \* a direct call of one exported function: its arguments
    fnRet,        \* ... and its completion
    runs          \* two runs of runOraclePipeline in flight at once: the
                  \* locals, calls and promise of each

vars == <<config, pc, idx, validations, accuracy, weather, voteResult,
          calls, status, report, fnArg, fnRet, runs>>

pipelineVars == <<config, pc, idx, validations, accuracy, weather, voteResult,
                  calls, status, report>>

----------------------------------------------------------------------------
(* Bounds of the model *)

MaxExp == 2        \* expectations in a configuration
MaxStrLen == 2     \* characters in a generated model name
MaxModels == 2     \* acceptable models of a directly validated expectation
MaxVals == 16      \* validations in a directly scored list
MaxList == 3       \* validations in a directly filtered or voted list
MaxMappings == 3   \* entries in a snapshot's mapping list

----------------------------------------------------------------------------
(* Values *)

Null == [null |-> TRUE]
Unassigned == [unassigned |-> TRUE]
IsNull(v) == "null" \in DOMAIN v

Ok(v) == [threw |-> FALSE, value |-> v]
Throw == [threw |-> TRUE]

Alphabet == {"E", "R"}
ERROR == <<"E", "R", "R", "O", "R">>
ModelNames == UNION {[1..n -> Alphabet] : n \in 0..MaxStrLen}

STRATEGIES == {"simple_majority", "supermajority", "unanimous",
               "proof_of_learning", "higher_order"}
DECISIONS == {"approved", "rejected", "pending", "timeout"}

DelegateRequired == {"recommended_model", "reasoning", "capabilities",
                     "estimated_tokens", "alternatives"}
WeatherRequired == {"overall", "cliWeather", "adaptiveBonuses",
                    "tierRecommendations", "explorationRate",
                    "coldStartThreshold", "collectedAt"}
VoteRequired == {"proposal", "strategy", "decision", "approvalPercentage",
                 "voteCounts", "votes", "durationMs", "simulateVotes"}

----------------------------------------------------------------------------
(* Schemas: X.parse(raw) returns the typed value or throws *)

DelegateResponseSchema_parse(raw) ==
    IF raw.kind = "object" /\ DelegateRequired \subseteq raw.has
    THEN Ok([recommended_model |-> raw.recommended_model,
             reasoning |-> raw.reasoning,
             alternatives |-> raw.alternatives])
    ELSE Throw

WeatherResponseSchema_parse(raw) ==
    IF raw.kind = "object" /\ WeatherRequired \subseteq raw.has
    THEN Ok([overall |-> raw.overall,
             cliWeather |-> raw.cliWeather,
             hasMappings |-> "recommendedMappings" \in raw.has,
             recommendedMappings |->
                 IF "recommendedMappings" \in raw.has
                 THEN raw.recommendedMappings ELSE <<>>])
    ELSE Throw

VoteResponseSchema_parse(raw) ==
    IF /\ raw.kind = "object"
       /\ VoteRequired \subseteq raw.has
       /\ raw.strategy \in STRATEGIES
       /\ raw.decision \in DECISIONS
    THEN Ok([proposal |-> raw.proposal,
             strategy |-> raw.strategy,
             decision |-> raw.decision,
             approvalPercentage |-> raw.approvalPercentage])
    ELSE Throw

----------------------------------------------------------------------------
(* String.prototype.includes and Array.prototype.some, as they scan *)

RECURSIVE indexOfFrom(_, _, _)
indexOfFrom(s, t, k) ==
    IF k + Len(t) - 1 > Len(s) THEN -1
    ELSE IF SubSeq(s, k, k + Len(t) - 1) = t THEN k
    ELSE indexOfFrom(s, t, k + 1)

includes(s, t) == indexOfFrom(s, t, 1) # -1

(* the predicate of acceptableModels.some(...), lines 47-49 *)
MatchesOneWay(m, rec) == includes(rec, m)

Matches(m, rec) == includes(rec, m) \/ includes(m, rec)

RECURSIVE someFrom(_, _, _)
someFrom(models, rec, k) ==
    IF k > Len(models) THEN FALSE
    ELSE IF Matches(models[k], rec) THEN TRUE
    ELSE someFrom(models, rec, k + 1)

RECURSIVE mapModel(_)
mapModel(alts) ==
    IF alts = <<>> THEN <<>> ELSE <<Head(alts).model>> \o mapModel(Tail(alts))

RECURSIVE countCorrect(_)
countCorrect(vs) ==
    IF vs = <<>> THEN 0
    ELSE (IF Head(vs).correct THEN 1 ELSE 0) + countCorrect(Tail(vs))

(* Math.round(num / den), den > 0, num >= 0: the nearest integer, halves up *)
MathRound(num, den) == (2 * num + den) \div (2 * den)

----------------------------------------------------------------------------
(* The steps.  `outcome` is how the awaited caller.call settled:           *)
(* [rejected |-> TRUE] or [rejected |-> FALSE, raw |-> the value].         *)

Rejected == [rejected |-> TRUE]
Resolved(raw) == [rejected |-> FALSE, raw |-> raw]
Pending == [pending |-> TRUE]
IsPending(o) == "pending" \in DOMAIN o
delegateArgs(expectation) ==
    [task |-> expectation.task,
     preferred_capability |-> expectation.preferredCapability]

routeAndValidate(expectation, outcome) ==
    IF outcome.rejected THEN Throw
    ELSE LET parsed == DelegateResponseSchema_parse(outcome.raw) IN
         IF parsed.threw THEN Throw
         ELSE LET result == parsed.value IN
              Ok([category |-> expectation.category,
                  recommended |-> result.recommended_model,
                  expected |-> expectation.expectedPrimaryCli,
                  correct |-> someFrom(expectation.acceptableModels,
                                       result.recommended_model, 1),
                  reasoning |-> result.reasoning,
                  alternatives |-> mapModel(result.alternatives)])

weatherArgs == [includeAdaptive |-> TRUE]

fetchWeather(outcome) ==
    IF outcome.rejected THEN Throw
    ELSE WeatherResponseSchema_parse(outcome.raw)

summaryLine(v) ==
    [category |-> v.category,
     verdict |-> IF v.correct THEN "CORRECT" ELSE "WRONG",
     got |-> v.recommended,
     expected |-> v.expected]

voteProposal(vs) ==
    LET correct == countCorrect(vs)
        total == Len(vs)
    IN [accuracy |-> IF total > 0 THEN MathRound(correct * 100, total) ELSE 0,
        correct |-> correct,
        total |-> total,
        summary |-> [k \in 1..Len(vs) |-> summaryLine(vs[k])],
        question |-> "Should we approve this routing quality?"]

(* variant: the strategy parameter is ignored *)
voteArgsDefaultStrategy(vs, strategy) ==
    [proposal |-> voteProposal(vs),
     strategy |-> "simple_majority",
     quickMode |-> TRUE,
     simulateVotes |-> FALSE]

voteArgs(vs, strategy) ==
    [proposal |-> voteProposal(vs),
     strategy |-> IF strategy = "undefined" THEN "simple_majority" ELSE strategy,
     quickMode |-> TRUE,
     simulateVotes |-> FALSE]

voteOnQuality(outcome) ==
    IF outcome.rejected THEN Throw
    ELSE VoteResponseSchema_parse(outcome.raw)

computeAccuracyFloor(vs) ==
    IF Len(vs) = 0 THEN [thousandths |-> 0]
    ELSE [thousandths |-> (countCorrect(vs) * 1000) \div Len(vs)]

computeAccuracy(vs) ==
    IF Len(vs) = 0 THEN [thousandths |-> 0]
    ELSE [thousandths |-> MathRound(countCorrect(vs) * 1000, Len(vs))]

(* variant: the flag of a failed call decided by the substring rule *)
syntheticValidationMatched(exp) ==
    [category |-> exp.category,
     recommended |-> ERROR,
     expected |-> exp.expectedPrimaryCli,
     correct |-> someFrom(exp.acceptableModels, ERROR, 1),
     reasoning |-> "Tool call failed",
     alternatives |-> <<>>]

syntheticValidation(exp) ==
    [category |-> exp.category,
     recommended |-> ERROR,
     expected |-> exp.expectedPrimaryCli,
     correct |-> FALSE,
     reasoning |-> "Tool call failed",
     alternatives |-> <<>>]

----------------------------------------------------------------------------
(* Inputs: the configurations a run is started with and the ways the tool  *)
(* caller can settle a call.                                               *)

ExpArchitecture ==
    [category |-> "architecture",
     task |-> "Design a microservices architecture",
     preferredCapability |-> "reasoning",
     expectedPrimaryCli |-> "claude",
     acceptableModels |-> << <<"E", "E">>, <<"E", "R">> >>]

ExpTesting ==
    [category |-> "testing",
     task |-> "Generate integration tests",
     preferredCapability |-> "code",
     expectedPrimaryCli |-> "codex",
     acceptableModels |-> << <<"R", "E">> >>]

ExpectationPool == {ExpArchitecture, ExpTesting}

Flags == {"true", "false", "undefined"}

Configs ==
    [expectations : UNION {[1..n -> ExpectationPool] : n \in 0..MaxExp},
     includeWeather : Flags,
     includeVote : Flags,
     voteStrategy : STRATEGIES \cup {"undefined"}]

IdleConfig ==
    [expectations |-> <<>>, includeWeather |-> "undefined",
     includeVote |-> "undefined", voteStrategy |-> "undefined"]

RawNull == [kind |-> "null", has |-> {}]

Alternatives ==
    << [model |-> "alt-1", score |-> "s1", tradeoff |-> "t1"],
       [model |-> "alt-2", score |-> "s2", tradeoff |-> "t2"] >>

DelegateRaw(rec, has) ==
    [kind |-> "object", has |-> has, recommended_model |-> rec,
     reasoning |-> "Best for the task", alternatives |-> Alternatives]

DelegateOutcomes ==
    {Rejected,
     Resolved(DelegateRaw(<<"R">>, DelegateRequired \ {"alternatives"})),
     Resolved(DelegateRaw(<<"R">>, DelegateRequired)),
     Resolved(DelegateRaw(<<"R", "R">>, DelegateRequired)),
     Resolved(DelegateRaw(<<"E", "E", "R">>, DelegateRequired \cup {"governance"}))}

WeatherRaw(has) ==
    [kind |-> "object", has |-> has, overall |-> "overall",
     cliWeather |-> "cliWeather",
     recommendedMappings |->
         << [category |-> "architecture", recommendedCli |-> "claude"] >>]

WeatherOutcomes ==
    {Rejected,
     Resolved(WeatherRaw(WeatherRequired \ {"overall"})),
     Resolved(WeatherRaw(WeatherRequired)),
     Resolved(WeatherRaw(WeatherRequired \cup {"recommendedMappings"}))}

VoteRaw(decision, has) ==
    [kind |-> "object", has |-> has, proposal |-> "echo",
     strategy |-> "simple_majority", decision |-> decision,
     approvalPercentage |-> "pct"]

VoteOutcomes ==
    {Rejected,
     Resolved(VoteRaw("maybe", VoteRequired)),
     Resolved(VoteRaw("approved", VoteRequired)),
     Resolved(VoteRaw("rejected", VoteRequired))}

----------------------------------------------------------------------------
(* runOraclePipeline *)

NoCall == [fn |-> "none"]

Init ==
    /\ config \in Configs
    /\ pc = "start"
    /\ idx = 0
    /\ validations = <<>>
    /\ accuracy = Unassigned
    /\ weather = Unassigned
    /\ voteResult = Unassigned
    /\ calls = <<>>
    /\ status = "pending"
    /\ report = Unassigned
    /\ fnArg = NoCall
    /\ fnRet = Unassigned
    /\ runs = <<>>

Call(tool, args) ==
    calls' = Append(calls, [tool |-> tool, args |-> args, outcome |-> Pending])

Settle(outcome) ==
    calls' = [calls EXCEPT ![Len(calls)].outcome = outcome]

(* variant: a configuration without expectations is refused *)
StartRejectsEmpty ==
    /\ pc = "start"
    /\ validations' = <<>>
    /\ idx' = 1
    /\ pc' = IF config.expectations = <<>> THEN "done" ELSE "route"
    /\ status' = IF config.expectations = <<>> THEN "rejected" ELSE status
    /\ UNCHANGED <<config, accuracy, weather, voteResult, calls,
                   report, fnArg, fnRet, runs>>

(* line 146 and the head of the loop, line 147 *)
Start ==
    /\ pc = "start"
    /\ validations' = <<>>
    /\ idx' = 1
    /\ pc' = "route"
    /\ UNCHANGED <<config, accuracy, weather, voteResult, calls, status,
                   report, fnArg, fnRet, runs>>

(* variant: the routing calls of all remaining expectations issued at once *)
RouteCallFanOut ==
    /\ pc = "route"
    /\ idx <= Len(config.expectations)
    /\ calls' = calls \o
          [k \in 1..(Len(config.expectations) - idx + 1) |->
              [tool |-> "delegate_to_model",
               args |-> delegateArgs(config.expectations[idx + k - 1]),
               outcome |-> Pending]]
    /\ pc' = "routeWait"
    /\ UNCHANGED <<config, idx, validations, accuracy, weather, voteResult,
                   status, report, fnArg, fnRet, runs>>

(* lines 147-149 and 41-44: the call of routeAndValidate, up to its await *)
RouteCall ==
    /\ pc = "route"
    /\ idx <= Len(config.expectations)
    /\ Call("delegate_to_model", delegateArgs(config.expectations[idx]))
    /\ pc' = "routeWait"
    /\ UNCHANGED <<config, idx, validations, accuracy, weather, voteResult,
                   status, report, fnArg, fnRet, runs>>

(* variant: one try around the whole loop, a failure ends the Route stage *)
RouteSettleAbort ==
    /\ pc = "routeWait"
    /\ \E outcome \in DelegateOutcomes :
         LET exp == config.expectations[idx]
             v == routeAndValidate(exp, outcome)
         IN /\ Settle(outcome)
            /\ validations' = IF v.threw THEN validations
                               ELSE Append(validations, v.value)
            /\ idx' = IF v.threw THEN Len(config.expectations) + 1
                       ELSE idx + 1
    /\ pc' = "route"
    /\ UNCHANGED <<config, accuracy, weather, voteResult, status, report,
                   fnArg, fnRet, runs>>

(* variant: a failed routing call is forgotten and issued again *)
RouteSettleRetry ==
    /\ pc = "routeWait"
    /\ \E outcome \in DelegateOutcomes :
         LET exp == config.expectations[idx]
             v == routeAndValidate(exp, outcome)
         IN IF v.threw
            THEN /\ calls' = SubSeq(calls, 1, Len(calls) - 1)
                 /\ UNCHANGED <<validations, idx>>
            ELSE /\ Settle(outcome)
                 /\ validations' = Append(validations, v.value)
                 /\ idx' = idx + 1
    /\ pc' = "route"
    /\ UNCHANGED <<config, accuracy, weather, voteResult, status, report,
                   fnArg, fnRet, runs>>

(* variant: unshift for push *)
RouteSettlePrepend ==
    /\ pc = "routeWait"
    /\ \E outcome \in DelegateOutcomes :
         LET exp == config.expectations[idx]
             v == routeAndValidate(exp, outcome)
         IN /\ Settle(outcome)
            /\ validations' =
                  <<IF v.threw THEN syntheticValidation(exp) ELSE v.value>>
                  \o validations
    /\ idx' = idx + 1
    /\ pc' = "route"
    /\ UNCHANGED <<config, accuracy, weather, voteResult, status, report,
                   fnArg, fnRet, runs>>

(* variant: the catch tells a malformed response from a rejected call *)
RouteSettleDistinguish ==
    /\ pc = "routeWait"
    /\ \E outcome \in DelegateOutcomes :
         LET exp == config.expectations[idx]
             v == routeAndValidate(exp, outcome)
         IN /\ Settle(outcome)
            /\ validations' = Append(validations,
                   IF v.threw
                   THEN IF outcome.rejected THEN syntheticValidation(exp)
                        ELSE [syntheticValidation(exp) EXCEPT
                                 !.reasoning = "Invalid response"]
                   ELSE v.value)
    /\ idx' = idx + 1
    /\ pc' = "route"
    /\ UNCHANGED <<config, accuracy, weather, voteResult, status, report,
                   fnArg, fnRet, runs>>

(* lines 45-59 and 149-160: the call settles; push v, or catch and push *)
RouteSettle ==
    /\ pc = "routeWait"
    /\ \E outcome \in DelegateOutcomes :
         LET exp == config.expectations[idx]
             v == routeAndValidate(exp, outcome)
         IN /\ Settle(outcome)
            /\ validations' = Append(validations,
                   IF v.threw THEN syntheticValidation(exp) ELSE v.value)
    /\ idx' = idx + 1
    /\ pc' = "route"
    /\ UNCHANGED <<config, accuracy, weather, voteResult, status, report,
                   fnArg, fnRet, runs>>

(* variant: failed calls left out of the score *)
ComputeAccuracySkippingErrors ==
    /\ pc = "route"
    /\ idx > Len(config.expectations)
    /\ accuracy' = computeAccuracy(
                       SelectSeq(validations, LAMBDA v : v.recommended # ERROR))
    /\ pc' = "weather"
    /\ UNCHANGED <<config, idx, validations, weather, voteResult, calls,
                   status, report, fnArg, fnRet, runs>>

(* line 163, after the loop has ended *)
ComputeAccuracy ==
    /\ pc = "route"
    /\ idx > Len(config.expectations)
    /\ accuracy' = computeAccuracy(validations)
    /\ pc' = "weather"
    /\ UNCHANGED <<config, idx, validations, weather, voteResult, calls,
                   status, report, fnArg, fnRet, runs>>

(* lines 166-167: not configured *)
WeatherSkip ==
    /\ pc = "weather"
    /\ config.includeWeather # "true"
    /\ weather' = Null
    /\ pc' = "vote"
    /\ UNCHANGED <<config, idx, validations, accuracy, voteResult, calls,
                   status, report, fnArg, fnRet, runs>>

(* variant: `!== false` for `=== true` *)
WeatherCallUnlessFalse ==
    /\ pc = "weather"
    /\ config.includeWeather # "false"
    /\ weather' = Null
    /\ Call("weather_report", weatherArgs)
    /\ pc' = "weatherWait"
    /\ UNCHANGED <<config, idx, validations, accuracy, voteResult, status,
                   report, fnArg, fnRet, runs>>

(* lines 166-169 and 65-67 *)
WeatherCall ==
    /\ pc = "weather"
    /\ config.includeWeather = "true"
    /\ weather' = Null
    /\ Call("weather_report", weatherArgs)
    /\ pc' = "weatherWait"
    /\ UNCHANGED <<config, idx, validations, accuracy, voteResult, status,
                   report, fnArg, fnRet, runs>>

(* variant: no try around fetchWeather, its fault rejects the run *)
WeatherSettleNoCatch ==
    /\ pc = "weatherWait"
    /\ \E outcome \in WeatherOutcomes :
         LET w == fetchWeather(outcome)
         IN /\ Settle(outcome)
            /\ weather' = IF w.threw THEN weather ELSE w.value
            /\ status' = IF w.threw THEN "rejected" ELSE status
            /\ pc' = IF w.threw THEN "done" ELSE "vote"
    /\ UNCHANGED <<config, idx, validations, accuracy, voteResult, report,
                   fnArg, fnRet, runs>>

(* lines 68 and 168-172 *)
WeatherSettle ==
    /\ pc = "weatherWait"
    /\ \E outcome \in WeatherOutcomes :
         LET w == fetchWeather(outcome)
         IN /\ Settle(outcome)
            /\ weather' = IF w.threw THEN Null ELSE w.value
    /\ pc' = "vote"
    /\ UNCHANGED <<config, idx, validations, accuracy, voteResult, status,
                   report, fnArg, fnRet, runs>>

(* lines 176-177: not configured *)
VoteSkip ==
    /\ pc = "vote"
    /\ config.includeVote # "true"
    /\ voteResult' = Null
    /\ pc' = "return"
    /\ UNCHANGED <<config, idx, validations, accuracy, weather, calls,
                   status, report, fnArg, fnRet, runs>>

(* variant: the vote is asked about the answered calls only *)
VoteCallSkipsErrors ==
    /\ pc = "vote"
    /\ config.includeVote = "true"
    /\ voteResult' = Null
    /\ Call("consensus_vote",
            voteArgs(SelectSeq(validations, LAMBDA v : v.recommended # ERROR),
                     config.voteStrategy))
    /\ pc' = "voteWait"
    /\ UNCHANGED <<config, idx, validations, accuracy, weather, status,
                   report, fnArg, fnRet, runs>>

(* lines 176-183 and 77-99 *)
VoteCall ==
    /\ pc = "vote"
    /\ config.includeVote = "true"
    /\ voteResult' = Null
    /\ Call("consensus_vote", voteArgs(validations, config.voteStrategy))
    /\ pc' = "voteWait"
    /\ UNCHANGED <<config, idx, validations, accuracy, weather, status,
                   report, fnArg, fnRet, runs>>

(* variant: the catch stores a marker object *)
VoteSettleErrorValue ==
    /\ pc = "voteWait"
    /\ \E outcome \in VoteOutcomes :
         LET r == voteOnQuality(outcome)
         IN /\ Settle(outcome)
            /\ voteResult' = IF r.threw THEN [error |-> TRUE] ELSE r.value
    /\ pc' = "return"
    /\ UNCHANGED <<config, idx, validations, accuracy, weather, status,
                   report, fnArg, fnRet, runs>>

(* variant: the vote kept only when telemetry is there too *)
VoteSettleNeedsWeather ==
    /\ pc = "voteWait"
    /\ \E outcome \in VoteOutcomes :
         LET r == voteOnQuality(outcome)
         IN /\ Settle(outcome)
            /\ voteResult' = IF r.threw \/ IsNull(weather) THEN Null
                              ELSE r.value
    /\ pc' = "return"
    /\ UNCHANGED <<config, idx, validations, accuracy, weather, status,
                   report, fnArg, fnRet, runs>>

(* variant: a failed vote sends the run back to the Telemetry stage *)
VoteSettleBackToWeather ==
    /\ pc = "voteWait"
    /\ \E outcome \in VoteOutcomes :
         LET r == voteOnQuality(outcome)
         IN /\ Settle(outcome)
            /\ voteResult' = IF r.threw THEN Null ELSE r.value
            /\ pc' = IF r.threw THEN "weather" ELSE "return"
    /\ UNCHANGED <<config, idx, validations, accuracy, weather, status,
                   report, fnArg, fnRet, runs>>

(* variant: a failed vote is tried a second time *)
VoteSettleRetryOnce ==
    /\ pc = "voteWait"
    /\ \E outcome \in VoteOutcomes :
         LET r == voteOnQuality(outcome)
             again == r.threw /\ Len(calls) >= 1
                      /\ (Len(calls) = 1
                          \/ calls[Len(calls) - 1].tool # "consensus_vote")
         IN /\ calls' =
                  IF again
                  THEN Append([calls EXCEPT ![Len(calls)].outcome = outcome],
                              [calls[Len(calls)] EXCEPT !.outcome = Pending])
                  ELSE [calls EXCEPT ![Len(calls)].outcome = outcome]
            /\ voteResult' = IF r.threw THEN Null ELSE r.value
            /\ pc' = IF again THEN "voteWait" ELSE "return"
    /\ UNCHANGED <<config, idx, validations, accuracy, weather, status,
                   report, fnArg, fnRet, runs>>

(* lines 100 and 178-186 *)
VoteSettle ==
    /\ pc = "voteWait"
    /\ \E outcome \in VoteOutcomes :
         LET r == voteOnQuality(outcome)
         IN /\ Settle(outcome)
            /\ voteResult' = IF r.threw THEN Null ELSE r.value
    /\ pc' = "return"
    /\ UNCHANGED <<config, idx, validations, accuracy, weather, status,
                   report, fnArg, fnRet, runs>>

(* line 189 *)
Return ==
    /\ pc = "return"
    /\ report' = [validations |-> validations, accuracy |-> accuracy,
                  weather |-> weather, voteResult |-> voteResult]
    /\ status' = "fulfilled"
    /\ pc' = "done"
    /\ UNCHANGED <<config, idx, validations, accuracy, weather, voteResult,
                   calls, fnArg, fnRet, runs>>

Next ==
    \/ Start
    \/ RouteCall
    \/ RouteSettle
    \/ ComputeAccuracy
    \/ WeatherSkip
    \/ WeatherCall
    \/ WeatherSettle
    \/ VoteSkip
    \/ VoteCall
    \/ VoteSettle
    \/ Return

Spec == Init /\ [][Next]_vars

(* The event loop runs a continuation that is ready, and every call to the *)
(* tool caller settles.                                                    *)
LiveSpec == Init /\ [][Next]_vars /\ WF_vars(Next)

----------------------------------------------------------------------------
(* The exported functions called directly, on inputs drawn from bounded    *)
(* sets.                                                                   *)

(* lines 117-121: Array.prototype.filter keeps, in order, the elements the  *)
(* predicate accepts, in a new array                                       *)
RECURSIVE filterFrom(_, _, _)
filterFrom(vs, keepCorrect, k) ==
    IF k > Len(vs) THEN <<>>
    ELSE (IF vs[k].correct = keepCorrect THEN <<vs[k]>> ELSE <<>>)
         \o filterFrom(vs, keepCorrect, k + 1)

(* variant: the predicate without its negation *)
getMisroutedKeepsCorrect(vs) == filterFrom(vs, TRUE, 1)

getMisrouted(vs) == filterFrom(vs, FALSE, 1)

(* line 129: Array.prototype.find returns the first element the predicate  *)
(* accepts, or undefined                                                   *)
RECURSIVE findFrom(_, _, _)
findFrom(mappings, category, k) ==
    IF k > Len(mappings) THEN [found |-> FALSE]
    ELSE IF mappings[k].category = category
         THEN [found |-> TRUE, value |-> mappings[k]]
         ELSE findFrom(mappings, category, k + 1)

(* variant: a category without a mapping counts as confirmed *)
weatherConfirmsDefaultTrue(snapshot, category, expectedCli) ==
    IF ~snapshot.hasMappings THEN FALSE
    ELSE LET mapping == findFrom(snapshot.recommendedMappings, category, 1)
         IN IF ~mapping.found THEN TRUE
            ELSE mapping.value.recommendedCli = expectedCli

(* variant: `some` over the entries, any matching entry confirms *)
weatherConfirmsAny(snapshot, category, expectedCli) ==
    /\ snapshot.hasMappings
    /\ \E k \in 1..Len(snapshot.recommendedMappings) :
          /\ snapshot.recommendedMappings[k].category = category
          /\ snapshot.recommendedMappings[k].recommendedCli = expectedCli

weatherConfirms(snapshot, category, expectedCli) ==
    IF ~snapshot.hasMappings THEN FALSE
    ELSE LET mapping == findFrom(snapshot.recommendedMappings, category, 1)
         IN IF ~mapping.found THEN FALSE
            ELSE mapping.value.recommendedCli = expectedCli

ValidationOf(b) ==
    [category |-> "architecture", recommended |-> <<"E">>,
     expected |-> "claude", correct |-> b, reasoning |-> "",
     alternatives |-> <<>>]

FnModelLists == UNION {[1..n -> ModelNames] : n \in 0..MaxModels}

FnDelegateOutcomes ==
    {Rejected, Resolved(RawNull)}
    \cup {Resolved(DelegateRaw(rec, has)) :
             rec \in ModelNames \cup {ERROR},
             has \in {DelegateRequired,
                      DelegateRequired \ {"recommended_model"}}}

FnArgComputeAccuracy ==
    \E n \in 0..MaxVals : \E bs \in [1..n -> BOOLEAN] :
        fnArg = [fn |-> "computeAccuracy",
                 validations |-> [k \in 1..n |-> ValidationOf(bs[k])]]

FnArgRouteAndValidate ==
    \E ms \in FnModelLists : \E o \in FnDelegateOutcomes :
        fnArg = [fn |-> "routeAndValidate",
                 expectation |-> [ExpArchitecture EXCEPT !.acceptableModels = ms],
                 outcome |-> o]

----------------------------------------------------------------------------
(* generateReport in 'json' format.  A report is given as the JavaScript   *)
(* value it is: a tree of objects (ordered own properties), arrays,        *)
(* strings, booleans, numbers, null and undefined.  A number is held in    *)
(* thousandths, or is not finite.  The JSON text is given as its document: *)
(* the tree of the JSON grammar's values, a number by its decimal digits;  *)
(* the indentation asked for by JSON.stringify(report, null, 2) is white   *)
(* space between tokens and is not part of the document.                   *)

JUndefined == [t |-> "undefined"]
JNull == [t |-> "null"]
JBool(b) == [t |-> "boolean", b |-> b]
JStr(str) == [t |-> "string", s |-> str]
JNum(n) == [t |-> "number", finite |-> TRUE, thousandths |-> n]
JInfinity == [t |-> "number", finite |-> FALSE, thousandths |-> 0]
JArr(items) == [t |-> "array", items |-> items]
JProp(k, v) == [key |-> k, value |-> v]
JObj(props) == [t |-> "object", props |-> props]

IsUndefined(x) == "t" \in DOMAIN x /\ x.t = "undefined"

RECURSIVE StripZeros(_)
StripZeros(ds) ==
    IF ds = <<>> THEN <<>>
    ELSE IF ds[Len(ds)] = 0 THEN StripZeros(SubSeq(ds, 1, Len(ds) - 1))
         ELSE ds

(* variant: two decimals, as Number.prototype.toFixed(2) then trimmed *)
NumberToStringFixed2(n) ==
    [j |-> "number", int |-> n \div 1000,
     frac |-> StripZeros(<<(n \div 100) % 10, (n \div 10) % 10>>)]

(* Number::toString of a finite number >= 0 with at most three decimals *)
NumberToString(n) ==
    [j |-> "number", int |-> n \div 1000,
     frac |-> StripZeros(<<(n \div 100) % 10, (n \div 10) % 10, n % 10>>)]

(* the number a JSON number token denotes *)
StringToNumber(doc) ==
    LET d(k) == IF k <= Len(doc.frac) THEN doc.frac[k] ELSE 0
    IN doc.int * 1000 + d(1) * 100 + d(2) * 10 + d(3)

(* SerializeJSONProperty: undefined has no text; a number that is not      *)
(* finite is written null; in an array undefined is written null; in an    *)
(* object a property whose value has no text is left out                   *)
RECURSIVE SerializeJSONProperty(_)
SerializeJSONProperty(v) ==
    CASE v.t = "undefined" -> JUndefined
      [] v.t = "null" -> [j |-> "null"]
      [] v.t = "boolean" -> [j |-> IF v.b THEN "true" ELSE "false"]
      [] v.t = "string" -> [j |-> "string", s |-> v.s]
      [] v.t = "number" ->
            IF v.finite THEN NumberToString(v.thousandths)
            ELSE [j |-> "null"]
      [] v.t = "array" ->
            [j |-> "array",
             items |-> [k \in 1..Len(v.items) |->
                          LET e == SerializeJSONProperty(v.items[k])
                          IN IF IsUndefined(e) THEN [j |-> "null"] ELSE e]]
      [] v.t = "object" ->
            [j |-> "object",
             members |->
                SelectSeq([k \in 1..Len(v.props) |->
                              JProp(v.props[k].key,
                                    SerializeJSONProperty(v.props[k].value))],
                          LAMBDA mbr : ~IsUndefined(mbr.value))]

JSONstringify(v) == SerializeJSONProperty(v)

RECURSIVE JSONparse(_)
JSONparse(doc) ==
    CASE doc.j = "null" -> JNull
      [] doc.j = "true" -> JBool(TRUE)
      [] doc.j = "false" -> JBool(FALSE)
      [] doc.j = "string" -> JStr(doc.s)
      [] doc.j = "number" -> JNum(StringToNumber(doc))
      [] doc.j = "array" ->
            JArr([k \in 1..Len(doc.items) |-> JSONparse(doc.items[k])])
      [] doc.j = "object" ->
            JObj([k \in 1..Len(doc.members) |->
                     JProp(doc.members[k].key,
                           JSONparse(doc.members[k].value))])

(* lines 12-19; the markdown and text renderings are kept opaque *)
generateReport(rep, format) ==
    IF format = "json" THEN JSONstringify(rep)
    ELSE [rendering |-> format]

validationJS(v) ==
    JObj(<<JProp("category", JStr(v.category)),
           JProp("recommended", JStr(v.recommended)),
           JProp("expected", JStr(v.expected)),
           JProp("correct", JBool(v.correct)),
           JProp("reasoning", JStr(v.reasoning)),
           JProp("alternatives",
                 JArr([k \in 1..Len(v.alternatives) |->
                          JStr(v.alternatives[k])]))>>)

reportJS(vs, acc, w, vote) ==
    JObj(<<JProp("validations",
                 JArr([k \in 1..Len(vs) |-> validationJS(vs[k])])),
           JProp("accuracy", JNum(acc.thousandths)),
           JProp("weather", w),
           JProp("voteResult", vote)>>)

WeatherJS(rate, tiers) ==
    JObj(<<JProp("overall",
                 JObj(<<JProp("totalTasks", JNum(3000)),
                        JProp("successRate", rate),
                        JProp("avgDurationMs", JNum(1500))>>)),
           JProp("cliWeather", JArr(<<>>)),
           JProp("adaptiveBonuses", JArr(<<>>)),
           JProp("tierRecommendations", JArr(tiers)),
           JProp("explorationRate", JNum(100)),
           JProp("coldStartThreshold", JNum(5000)),
           JProp("collectedAt", JStr("2026-01-01"))>>)

VoteJS(pct) ==
    JObj(<<JProp("proposal", JStr("echo")),
           JProp("strategy", JStr("simple_majority")),
           JProp("decision", JStr("approved")),
           JProp("approvalPercentage", pct),
           JProp("voteCounts",
                 JObj(<<JProp("approve", JNum(2000)),
                        JProp("reject", JNum(1000)),
                        JProp("abstain", JNum(0)),
                        JProp("error", JNum(0))>>)),
           JProp("votes", JArr(<<>>)),
           JProp("durationMs", JNum(12000)),
           JProp("simulateVotes", JBool(FALSE))>>)

(* what WeatherResponseSchema lets through: z.number() takes Infinity, and *)
(* a z.record(z.unknown()) takes any value, undefined included             *)
FnWeatherValues ==
    {JNull,
     WeatherJS(JNum(667), <<>>),
     WeatherJS(JInfinity, <<>>),
     WeatherJS(JNum(1000), <<JObj(<<JProp("tier", JStr("fast"))>>)>>),
     WeatherJS(JNum(1000), <<JObj(<<JProp("tier", JUndefined)>>)>>)}

FnVoteValues == {JNull, VoteJS(JNum(66700))}

----------------------------------------------------------------------------
(* generateMarkdownReport and generateTextReport (reporter.ts).  A         *)
(* rendering is given by what its lines state, not as text.                *)

(* variant: the percentage cut, not rounded *)
accuracyPercentFloor(rep) == (rep.accuracy.thousandths * 100) \div 1000

(* Math.round(report.accuracy * 100), lines 24 and 69 *)
accuracyPercent(rep) == MathRound(rep.accuracy.thousandths * 100, 1000)

(* lines 85-88 *)
formatValidationLine(v) ==
    [status |-> IF v.correct THEN "[PASS]" ELSE "[FAIL]",
     category |-> v.category,
     recommended |-> v.recommended,
     expected |-> v.expected]

(* lines 21-66 *)
generateMarkdownReport(rep) ==
    [accuracyPercent |-> accuracyPercent(rep),
     correct |-> Len(filterFrom(rep.validations, TRUE, 1)),
     total |-> Len(rep.validations),
     rows |-> [k \in 1..Len(rep.validations) |->
                 [category |-> rep.validations[k].category,
                  recommended |-> rep.validations[k].recommended,
                  expected |-> rep.validations[k].expected,
                  icon |-> IF rep.validations[k].correct
                           THEN "PASS" ELSE "FAIL"]],
     misrouted |-> filterFrom(rep.validations, FALSE, 1),
     weatherSection |-> ~IsNull(rep.weather),
     voteSection |-> ~IsNull(rep.voteResult)]

(* lines 68-83 *)
generateTextReport(rep) ==
    [accuracyPercent |-> accuracyPercent(rep),
     lines |-> [k \in 1..Len(rep.validations) |->
                  formatValidationLine(rep.validations[k])],
     voteLine |-> ~IsNull(rep.voteResult)]

(* a report as runOraclePipeline returns it for a run without telemetry    *)
(* and vote whose validations are vs                                       *)
ReportOf(vs) ==
    [validations |-> vs, accuracy |-> computeAccuracy(vs),
     weather |-> Null, voteResult |-> Null]

FnArgRender ==
    \E n \in 0..MaxVals : \E c \in 0..n :
    \E fn \in {"generateMarkdownReport", "generateTextReport"} :
        fnArg = [fn |-> fn,
                 report |-> ReportOf([k \in 1..n |-> ValidationOf(k <= c)])]

FnValidationPool ==
    {[ValidationOf(b) EXCEPT !.category = c, !.recommended = r] :
        b \in BOOLEAN, c \in {"architecture", "testing"},
        r \in {<<"E">>, ERROR}}

FnMappingPool ==
    {[category |-> c, recommendedCli |-> cli] :
        c \in {"architecture", "testing"}, cli \in {"claude", "codex"}}

FnArgGetMisrouted ==
    \E n \in 0..MaxList : \E vs \in [1..n -> FnValidationPool] :
        fnArg = [fn |-> "getMisrouted", validations |-> vs]

FnArgWeatherConfirms ==
    \E n \in 0..MaxMappings : \E ms \in [1..n -> FnMappingPool] :
    \E has \in BOOLEAN :
    \E c \in {"architecture", "testing"} : \E cli \in {"claude", "codex"} :
        /\ ~has => n = 0
        /\ fnArg = [fn |-> "weatherConfirms",
                    weather |-> [overall |-> "overall",
                                 cliWeather |-> "cliWeather",
                                 hasMappings |-> has,
                                 recommendedMappings |-> ms],
                    category |-> c,
                    expectedCli |-> cli]

FnArgVoteOnQuality ==
    \E n \in 0..MaxList : \E vs \in [1..n -> FnValidationPool] :
    \E strategy \in STRATEGIES \cup {"undefined"} :
        fnArg = [fn |-> "voteOnQuality", validations |-> vs,
                 strategy |-> strategy]

FnArgGenerateReport ==
    \E n \in 0..MaxList : \E vs \in [1..n -> FnValidationPool] :
    \E w \in FnWeatherValues : \E vote \in FnVoteValues :
        fnArg = [fn |-> "generateReport",
                 report |-> reportJS(vs, computeAccuracy(vs), w, vote),
                 format |-> "json"]

FnInit ==
    /\ \/ FnArgComputeAccuracy
       \/ FnArgRouteAndValidate
       \/ FnArgGetMisrouted
       \/ FnArgWeatherConfirms
       \/ FnArgVoteOnQuality
       \/ FnArgGenerateReport
       \/ FnArgRender
    /\ fnRet = Unassigned
    /\ config = IdleConfig
    /\ pc = "idle"
    /\ idx = 0
    /\ validations = <<>>
    /\ accuracy = Unassigned
    /\ weather = Unassigned
    /\ voteResult = Unassigned
    /\ calls = <<>>
    /\ status = "pending"
    /\ report = Unassigned
    /\ runs = <<>>

FnComputeAccuracy ==
    /\ fnArg.fn = "computeAccuracy"
    /\ fnRet = Unassigned
    /\ fnRet' = Ok(computeAccuracy(fnArg.validations))
    /\ UNCHANGED <<pipelineVars, fnArg, runs>>

FnRouteAndValidate ==
    /\ fnArg.fn = "routeAndValidate"
    /\ fnRet = Unassigned
    /\ fnRet' = routeAndValidate(fnArg.expectation, fnArg.outcome)
    /\ UNCHANGED <<pipelineVars, fnArg, runs>>

FnGetMisrouted ==
    /\ fnArg.fn = "getMisrouted"
    /\ fnRet = Unassigned
    /\ fnRet' = Ok(getMisrouted(fnArg.validations))
    /\ UNCHANGED <<pipelineVars, fnArg, runs>>

FnWeatherConfirms ==
    /\ fnArg.fn = "weatherConfirms"
    /\ fnRet = Unassigned
    /\ fnRet' = Ok(weatherConfirms(fnArg.weather, fnArg.category,
                                   fnArg.expectedCli))
    /\ UNCHANGED <<pipelineVars, fnArg, runs>>

(* lines 77-99: voteOnQuality up to its await *)
FnVoteOnQualityCall ==
    /\ fnArg.fn = "voteOnQuality"
    /\ fnRet = Unassigned
    /\ calls = <<>>
    /\ Call("consensus_vote", voteArgs(fnArg.validations, fnArg.strategy))
    /\ UNCHANGED <<config, pc, idx, validations, accuracy, weather,
                   voteResult, status, report, fnArg, fnRet, runs>>

(* line 100: the call settles and voteOnQuality returns or throws *)
FnVoteOnQualitySettle ==
    /\ fnArg.fn = "voteOnQuality"
    /\ fnRet = Unassigned
    /\ calls # <<>>
    /\ \E outcome \in VoteOutcomes :
         /\ Settle(outcome)
         /\ fnRet' = voteOnQuality(outcome)
    /\ UNCHANGED <<config, pc, idx, validations, accuracy, weather,
                   voteResult, status, report, fnArg, runs>>

FnGenerateReport ==
    /\ fnArg.fn = "generateReport"
    /\ fnRet = Unassigned
    /\ fnRet' = Ok(generateReport(fnArg.report, fnArg.format))
    /\ UNCHANGED <<pipelineVars, fnArg, runs>>

FnGenerateMarkdownReport ==
    /\ fnArg.fn = "generateMarkdownReport"
    /\ fnRet = Unassigned
    /\ fnRet' = Ok(generateMarkdownReport(fnArg.report))
    /\ UNCHANGED <<pipelineVars, fnArg, runs>>

FnGenerateTextReport ==
    /\ fnArg.fn = "generateTextReport"
    /\ fnRet = Unassigned
    /\ fnRet' = Ok(generateTextReport(fnArg.report))
    /\ UNCHANGED <<pipelineVars, fnArg, runs>>

FnNext ==
    \/ FnComputeAccuracy
    \/ FnRouteAndValidate
    \/ FnGetMisrouted
    \/ FnWeatherConfirms
    \/ FnVoteOnQualityCall
    \/ FnVoteOnQualitySettle
    \/ FnGenerateReport
    \/ FnGenerateMarkdownReport
    \/ FnGenerateTextReport

FnSpec == FnInit /\ [][FnNext]_vars

----------------------------------------------------------------------------
(* Two runs of runOraclePipeline started by the same program and in flight *)
(* together.  Each call of the function has its own locals (lines 146,     *)
(* 163, 166, 176) and the module has no variable of its own, so a run is a *)
(* record of what one call holds and a step of the event loop resumes one  *)
(* run.  The steps are those of the single run above.                      *)

MaxPairExp == 1    \* expectations in the configuration of each of the two runs

Runs == 1..2

PairConfigs ==
    [expectations : UNION {[1..n -> ExpectationPool] : n \in 0..MaxPairExp},
     includeWeather : {"true", "undefined"},
     includeVote : {"true", "undefined"},
     voteStrategy : {"undefined"}]

PairDelegateOutcomes ==
    {Rejected, Resolved(DelegateRaw(<<"R">>, DelegateRequired))}

PairWeatherOutcomes == {Rejected, Resolved(WeatherRaw(WeatherRequired))}

PairVoteOutcomes == {Rejected, Resolved(VoteRaw("approved", VoteRequired))}

NewRun(c) ==
    [config |-> c, pc |-> "start", idx |-> 0, validations |-> <<>>,
     accuracy |-> Unassigned, weather |-> Unassigned,
     voteResult |-> Unassigned, calls |-> <<>>, status |-> "pending",
     report |-> Unassigned]

PairInit ==
    /\ runs \in [Runs -> {NewRun(c) : c \in PairConfigs}]
    /\ config = IdleConfig
    /\ pc = "idle"
    /\ idx = 0
    /\ validations = <<>>
    /\ accuracy = Unassigned
    /\ weather = Unassigned
    /\ voteResult = Unassigned
    /\ calls = <<>>
    /\ status = "pending"
    /\ report = Unassigned
    /\ fnArg = NoCall
    /\ fnRet = Unassigned

Resume(r, next) ==
    /\ runs' = [runs EXCEPT ![r] = next]
    /\ UNCHANGED <<pipelineVars, fnArg, fnRet>>

CallOf(run, tool, args) ==
    Append(run.calls, [tool |-> tool, args |-> args, outcome |-> Pending])

SettleOf(run, outcome) ==
    [run.calls EXCEPT ![Len(run.calls)].outcome = outcome]

(* line 146 and the head of the loop, line 147 *)
PairStart(r) ==
    /\ runs[r].pc = "start"
    /\ Resume(r, [runs[r] EXCEPT !.validations = <<>>, !.idx = 1,
                                 !.pc = "route"])

(* lines 147-149 and 41-44 *)
PairRouteCall(r) ==
    LET run == runs[r]
    IN /\ run.pc = "route"
       /\ run.idx <= Len(run.config.expectations)
       /\ Resume(r, [run EXCEPT
             !.calls = CallOf(run, "delegate_to_model",
                              delegateArgs(run.config.expectations[run.idx])),
             !.pc = "routeWait"])

(* variant: const validations declared at module level, one array for all  *)
(* runs                                                                    *)
PairRouteSettleShared(r) ==
    LET run == runs[r]
    IN /\ run.pc = "routeWait"
       /\ \E outcome \in PairDelegateOutcomes :
            LET exp == run.config.expectations[run.idx]
                v == routeAndValidate(exp, outcome)
                pushed == IF v.threw THEN syntheticValidation(exp)
                          ELSE v.value
            IN /\ runs' = [q \in Runs |->
                    IF q = r
                    THEN [run EXCEPT
                            !.calls = SettleOf(run, outcome),
                            !.validations = Append(run.validations, pushed),
                            !.idx = run.idx + 1,
                            !.pc = "route"]
                    ELSE [runs[q] EXCEPT
                            !.validations = Append(runs[q].validations, pushed)]]
               /\ UNCHANGED <<pipelineVars, fnArg, fnRet>>

(* lines 45-59 and 149-160 *)
PairRouteSettle(r) ==
    LET run == runs[r]
    IN /\ run.pc = "routeWait"
       /\ \E outcome \in PairDelegateOutcomes :
            LET exp == run.config.expectations[run.idx]
                v == routeAndValidate(exp, outcome)
            IN Resume(r, [run EXCEPT
                  !.calls = SettleOf(run, outcome),
                  !.validations = Append(run.validations,
                      IF v.threw THEN syntheticValidation(exp) ELSE v.value),
                  !.idx = run.idx + 1,
                  !.pc = "route"])

(* line 163 *)
PairComputeAccuracy(r) ==
    LET run == runs[r]
    IN /\ run.pc = "route"
       /\ run.idx > Len(run.config.expectations)
       /\ Resume(r, [run EXCEPT
             !.accuracy = computeAccuracy(run.validations),
             !.pc = "weather"])

(* lines 166-167: not configured *)
PairWeatherSkip(r) ==
    LET run == runs[r]
    IN /\ run.pc = "weather"
       /\ run.config.includeWeather # "true"
       /\ Resume(r, [run EXCEPT !.weather = Null, !.pc = "vote"])

(* lines 166-169 and 65-67 *)
PairWeatherCall(r) ==
    LET run == runs[r]
    IN /\ run.pc = "weather"
       /\ run.config.includeWeather = "true"
       /\ Resume(r, [run EXCEPT
             !.weather = Null,
             !.calls = CallOf(run, "weather_report", weatherArgs),
             !.pc = "weatherWait"])

(* lines 68 and 168-172 *)
PairWeatherSettle(r) ==
    LET run == runs[r]
    IN /\ run.pc = "weatherWait"
       /\ \E outcome \in PairWeatherOutcomes :
            LET w == fetchWeather(outcome)
            IN Resume(r, [run EXCEPT
                  !.calls = SettleOf(run, outcome),
                  !.weather = IF w.threw THEN Null ELSE w.value,
                  !.pc = "vote"])

(* lines 176-177: not configured *)
PairVoteSkip(r) ==
    LET run == runs[r]
    IN /\ run.pc = "vote"
       /\ run.config.includeVote # "true"
       /\ Resume(r, [run EXCEPT !.voteResult = Null, !.pc = "return"])

(* lines 176-183 and 77-99 *)
PairVoteCall(r) ==
    LET run == runs[r]
    IN /\ run.pc = "vote"
       /\ run.config.includeVote = "true"
       /\ Resume(r, [run EXCEPT
             !.voteResult = Null,
             !.calls = CallOf(run, "consensus_vote",
                              voteArgs(run.validations,
                                       run.config.voteStrategy)),
             !.pc = "voteWait"])

(* lines 100 and 178-186 *)
PairVoteSettle(r) ==
    LET run == runs[r]
    IN /\ run.pc = "voteWait"
       /\ \E outcome \in PairVoteOutcomes :
            LET v == voteOnQuality(outcome)
            IN Resume(r, [run EXCEPT
                  !.calls = SettleOf(run, outcome),
                  !.voteResult = IF v.threw THEN Null ELSE v.value,
                  !.pc = "return"])

(* line 189 *)
PairReturn(r) ==
    LET run == runs[r]
    IN /\ run.pc = "return"
       /\ Resume(r, [run EXCEPT
             !.report = [validations |-> run.validations,
                         accuracy |-> run.accuracy,
                         weather |-> run.weather,
                         voteResult |-> run.voteResult],
             !.status = "fulfilled",
             !.pc = "done"])

PairNext ==
    \E r \in Runs :
        \/ PairStart(r)
        \/ PairRouteCall(r)
        \/ PairRouteSettle(r)
        \/ PairComputeAccuracy(r)
        \/ PairWeatherSkip(r)
        \/ PairWeatherCall(r)
        \/ PairWeatherSettle(r)
        \/ PairVoteSkip(r)
        \/ PairVoteCall(r)
        \/ PairVoteSettle(r)
        \/ PairReturn(r)

PairSpec == PairInit /\ [][PairNext]_vars

----------------------------------------------------------------------------
(* Vocabulary of the properties *)

Returned == fnRet # Unassigned

(* t occurs in s as a contiguous run of characters *)
IsSubstring(t, s) ==
    \E a \in 0..Len(s) : \E b \in a..Len(s) : SubSeq(s, a + 1, b) = t

MatchesSome(models, rec) ==
    \E k \in 1..Len(models) :
        IsSubstring(models[k], rec) \/ IsSubstring(rec, models[k])

NumCorrect(vs) == Cardinality({k \in 1..Len(vs) : vs[k].correct})

Done == pc = "done"

CallsOf(tool) == {k \in 1..Len(calls) : calls[k].tool = tool}

(* the call did not produce a usable result: it was rejected, or what it   *)
(* returned does not pass the schema of its tool                           *)
CallFailed(c) ==
    \/ c.outcome.rejected
    \/ c.tool = "delegate_to_model"
          /\ DelegateResponseSchema_parse(c.outcome.raw).threw
    \/ c.tool = "weather_report"
          /\ WeatherResponseSchema_parse(c.outcome.raw).threw
    \/ c.tool = "consensus_vote"
          /\ VoteResponseSchema_parse(c.outcome.raw).threw

ErrorValidation(exp) ==
    [category |-> exp.category,
     recommended |-> <<"E", "R", "R", "O", "R">>,
     expected |-> exp.expectedPrimaryCli,
     correct |-> FALSE,
     reasoning |-> "Tool call failed",
     alternatives |-> <<>>]

LateStages == {"weather", "weatherWait", "vote", "voteWait", "return"}

LateStagesKeepScore ==
    pc \in LateStages =>
        (validations' = validations /\ accuracy' = accuracy)

AccuracyAssignedOnce == accuracy # Unassigned => accuracy' = accuracy

(* a thousandths is the fraction c/n rounded to three decimals, halves up *)
IsRounded3(a, c, n) ==
    /\ 2 * (a * n - 1000 * c) <= n
    /\ 2 * (a * n - 1000 * c) > -n

----------------------------------------------------------------------------
(* C7: computeAccuracy returns the fraction of validations with correct =  *)
(* true rounded to three decimals for every non-empty list, and exactly 0  *)
(* for the empty list; 2 correct of 3 gives 0.667.                         *)
C7_AccuracyRounded ==
    (fnArg.fn = "computeAccuracy" /\ Returned) =>
        LET vs == fnArg.validations
            n == Len(vs)
            c == NumCorrect(vs)
        IN /\ ~fnRet.threw
           /\ n = 0 => fnRet.value.thousandths = 0
           /\ n > 0 => IsRounded3(fnRet.value.thousandths, c, n)
           /\ (n = 3 /\ c = 2) => fnRet.value.thousandths = 667

C7_Witness ==
    /\ fnArg.fn = "computeAccuracy"
    /\ Returned
    /\ Len(fnArg.validations) = 3
    /\ NumCorrect(fnArg.validations) = 2
    /\ fnRet.value.thousandths = 667

(* C9: on a successful routing call routeAndValidate sets correct = true   *)
(* iff some acceptable model of the expectation is a substring of the      *)
(* recommended model or has the recommended model as a substring.          *)
C9_BidirectionalSubstring ==
    (fnArg.fn = "routeAndValidate" /\ Returned /\ ~fnRet.threw) =>
        /\ fnRet.value.recommended = fnArg.outcome.raw.recommended_model
        /\ fnRet.value.correct <=>
               MatchesSome(fnArg.expectation.acceptableModels,
                           fnArg.outcome.raw.recommended_model)

(* correct by the second acceptable model alone, which contains the        *)
(* recommended one and is not contained in it                              *)
C9_Witness ==
    /\ fnArg.fn = "routeAndValidate"
    /\ Returned
    /\ ~fnRet.threw
    /\ fnRet.value.correct
    /\ Len(fnArg.expectation.acceptableModels) = 2
    /\ LET ms == fnArg.expectation.acceptableModels
           rec == fnArg.outcome.raw.recommended_model
       IN /\ ~IsSubstring(ms[1], rec) /\ ~IsSubstring(rec, ms[1])
          /\ IsSubstring(rec, ms[2]) /\ ~IsSubstring(ms[2], rec)

----------------------------------------------------------------------------
(* C1: the failure of the routing call of one expectation never prevents   *)
(* another expectation from being validated: every expectation gets its    *)
(* own routing call, a failed one yields the synthetic validation          *)
(* (recommended "ERROR", correct false, reasoning "Tool call failed", no   *)
(* alternatives, the expectation's category and expected destination) and  *)
(* a successful one the validation of its own response.                    *)
C1_FaultIsolation ==
    Done =>
        LET exps == config.expectations IN
        /\ Len(report.validations) = Len(exps)
        /\ Cardinality(CallsOf("delegate_to_model")) = Len(exps)
        /\ \A k \in 1..Len(exps) :
              /\ calls[k].tool = "delegate_to_model"
              /\ calls[k].args = [task |-> exps[k].task,
                     preferred_capability |-> exps[k].preferredCapability]
              /\ CallFailed(calls[k]) =>
                     report.validations[k] = ErrorValidation(exps[k])
              /\ ~CallFailed(calls[k]) =>
                     /\ report.validations[k].category = exps[k].category
                     /\ report.validations[k].expected =
                            exps[k].expectedPrimaryCli
                     /\ report.validations[k].recommended =
                            calls[k].outcome.raw.recommended_model
                     /\ report.validations[k].reasoning =
                            calls[k].outcome.raw.reasoning

C1_Witness ==
    /\ Done
    /\ Len(config.expectations) = 2
    /\ CallFailed(calls[1])
    /\ ~CallFailed(calls[2])
    /\ report.validations[2].correct

(* C2: runOraclePipeline never surfaces a fault: whatever the route,       *)
(* telemetry and vote calls do and whatever the configuration, the run     *)
(* ends fulfilled with an Oracle Report, never rejected.                   *)
C2_NeverRejects ==
    /\ status # "rejected"
    /\ Done =>
          /\ status = "fulfilled"
          /\ DOMAIN report =
                {"validations", "accuracy", "weather", "voteResult"}

C2_Witness ==
    /\ Done
    /\ status = "fulfilled"
    /\ Len(config.expectations) >= 1
    /\ CallsOf("weather_report") # {}
    /\ CallsOf("consensus_vote") # {}
    /\ \A k \in 1..Len(calls) : CallFailed(calls[k])
    /\ \E k \in 1..Len(calls) : ~calls[k].outcome.rejected

(* C3: once started, the run always eventually reaches its terminal state, *)
(* however many stages failed, provided every call settles.                *)
C3_Terminates == (pc = "start") ~> Done

C3_Witness ==
    /\ Done
    /\ Len(config.expectations) = 2
    /\ Len(calls) = 4
    /\ \A k \in 1..Len(calls) : calls[k].outcome.rejected

(* C4: in every returned report the weather field is non-null only if      *)
(* includeWeather is true and the telemetry call succeeded with a valid    *)
(* shape; not requested or failed, it is null, never another value.        *)
C4_WeatherPresence ==
    Done =>
        LET requested == config.includeWeather = "true"
            ok == \E k \in CallsOf("weather_report") : ~CallFailed(calls[k])
        IN /\ (~requested \/ ~ok) => report.weather = Null
           /\ ~requested => CallsOf("weather_report") = {}
           /\ ~IsNull(report.weather) =>
                 /\ requested
                 /\ \E k \in CallsOf("weather_report") :
                       /\ ~CallFailed(calls[k])
                       /\ report.weather.overall = calls[k].outcome.raw.overall

C4_Witness ==
    /\ Done
    /\ ~IsNull(report.weather)
    /\ report.weather.hasMappings
    /\ \E k \in 1..Len(calls) : CallFailed(calls[k])

(* C5: in every returned report the voteResult field is non-null only if   *)
(* includeVote is true and the vote call succeeded with a valid shape; not *)
(* requested or failed, it is null, never another value.                   *)
C5_VotePresence ==
    Done =>
        LET requested == config.includeVote = "true"
            ok == \E k \in CallsOf("consensus_vote") : ~CallFailed(calls[k])
        IN /\ (~requested \/ ~ok) => report.voteResult = Null
           /\ ~requested => CallsOf("consensus_vote") = {}
           /\ ~IsNull(report.voteResult) =>
                 /\ requested
                 /\ \E k \in CallsOf("consensus_vote") :
                       /\ ~CallFailed(calls[k])
                       /\ report.voteResult.decision =
                              calls[k].outcome.raw.decision

(* requested, and the response has a decision outside the enumeration *)
C5_Witness ==
    /\ Done
    /\ config.includeVote = "true"
    /\ \E k \in CallsOf("consensus_vote") :
          /\ ~calls[k].outcome.rejected
          /\ CallFailed(calls[k])
    /\ report.voteResult = Null

(* C6: Telemetry and Vote are independent of each other and of validation: *)
(* a requested vote is called once, whatever Telemetry did, and its own    *)
(* success or failure alone decides whether voteResult is present; and no  *)
(* step of the Telemetry or Vote stage changes the validations or the      *)
(* accuracy.                                                               *)
C6_StagesIndependent ==
    /\ [](Done /\ config.includeVote = "true" =>
            /\ Cardinality(CallsOf("consensus_vote")) = 1
            /\ \A k \in CallsOf("consensus_vote") :
                  IsNull(report.voteResult) <=> CallFailed(calls[k]))
    /\ [][LateStagesKeepScore]_vars

C6_Witness ==
    /\ Done
    /\ Len(report.validations) >= 1
    /\ \E k \in CallsOf("weather_report") : CallFailed(calls[k])
    /\ \E k \in CallsOf("consensus_vote") : ~CallFailed(calls[k])
    /\ IsNull(report.weather)
    /\ ~IsNull(report.voteResult)

(* C8: in every returned report accuracy is in [0,1] and is computeAccuracy *)
(* of the report's own complete validations list, failed calls counted in  *)
(* the total and as incorrect; it is computed once, after the Route stage  *)
(* has finished, and the later stages do not change it.                    *)
C8_AccuracyOfReport ==
    /\ [](Done =>
            LET vs == report.validations
                a == report.accuracy.thousandths
            IN /\ a \in 0..1000
               /\ report.accuracy = computeAccuracy(vs)
               /\ Len(vs) = Len(config.expectations)
               /\ IF Len(vs) = 0 THEN a = 0
                  ELSE IsRounded3(a, NumCorrect(vs), Len(vs)))
    /\ [](accuracy # Unassigned =>
            /\ pc \in LateStages \cup {"done"}
            /\ Len(validations) = Len(config.expectations))
    /\ [][AccuracyAssignedOnce]_vars

C8_Witness ==
    /\ Done
    /\ Len(report.validations) = 2
    /\ report.validations[1] = ErrorValidation(config.expectations[1])
    /\ report.validations[2].correct
    /\ report.accuracy.thousandths = 500
    /\ ~IsNull(report.weather)

(* C10, as stated: every validation of a returned report, those of failed  *)
(* calls included, has correct = true iff its recommended string contains, *)
(* or is contained in, an acceptable model of its expectation.             *)
C10_FlagIffMatch ==
    Done =>
        \A k \in 1..Len(report.validations) :
            report.validations[k].correct <=>
                MatchesSome(config.expectations[k].acceptableModels,
                            report.validations[k].recommended)

(* C10, amended: correct = true iff the validation comes from a successful *)
(* call and its recommended string contains, or is contained in, an        *)
(* acceptable model; the validation of a failed call has correct = false   *)
(* even when "ERROR" matches an acceptable model.                          *)
C10_FlagIffSucceededAndMatch ==
    Done =>
        \A k \in 1..Len(report.validations) :
            report.validations[k].correct <=>
                /\ ~CallFailed(calls[k])
                /\ MatchesSome(config.expectations[k].acceptableModels,
                               report.validations[k].recommended)

C10_Witness ==
    /\ Done
    /\ \E k \in 1..Len(report.validations) :
          /\ CallFailed(calls[k])
          /\ report.validations[k].recommended = ERROR
          /\ MatchesSome(config.expectations[k].acceptableModels, ERROR)
          /\ ~report.validations[k].correct

----------------------------------------------------------------------------
(* Vocabulary of the ordering properties *)

Bit(b) == IF b THEN 1 ELSE 0

ArgsFor(exp) ==
    [task |-> exp.task, preferred_capability |-> exp.preferredCapability]

ToolRank(tool) ==
    CASE tool = "delegate_to_model" -> 1
      [] tool = "weather_report" -> 2
      [] tool = "consensus_vote" -> 3

PcRank(p) ==
    CASE p \in {"start", "idle"} -> 0
      [] p \in {"route", "routeWait"} -> 1
      [] p \in {"weather", "weatherWait"} -> 2
      [] p \in {"vote", "voteWait"} -> 3
      [] p = "return" -> 4
      [] p = "done" -> 5

OnlyLastOutstanding ==
    \A k \in 1..Len(calls) : IsPending(calls[k].outcome) => k = Len(calls)

GrowsByAppend ==
    \/ validations' = validations
    \/ /\ Len(validations') = Len(validations) + 1
       /\ SubSeq(validations', 1, Len(validations)) = validations

NeverBack == PcRank(pc') >= PcRank(pc)

(* C11: the report's validations list holds exactly one validation per     *)
(* configured expectation, in configuration order: its length is the       *)
(* number of expectations and the i-th validation carries the category and *)
(* expected destination of the i-th expectation, whether the i-th call     *)
(* succeeded or failed; a validation, once in the list, is not changed.    *)
C11_OnePerExpectationInOrder ==
    /\ [](Done =>
            /\ Len(report.validations) = Len(config.expectations)
            /\ \A k \in 1..Len(config.expectations) :
                  /\ report.validations[k].category =
                         config.expectations[k].category
                  /\ report.validations[k].expected =
                         config.expectations[k].expectedPrimaryCli)
    /\ [](Len(validations) <= Len(config.expectations))
    /\ [][GrowsByAppend]_vars

C11_Witness ==
    /\ Done
    /\ Len(config.expectations) = 2
    /\ config.expectations[1].category # config.expectations[2].category
    /\ ~CallFailed(calls[1])
    /\ CallFailed(calls[2])
    /\ report.validations[1].category = "testing"
    /\ report.validations[2].category = "architecture"

(* C12: in the Route stage the routing calls are issued one at a time in   *)
(* expectation order: the call for expectation i+1 only after the call for *)
(* expectation i has settled, at most one call outstanding at any moment,  *)
(* and exactly one call per expectation, a failed one not repeated.        *)
C12_OneAtATimeInOrder ==
    /\ OnlyLastOutstanding
    /\ \A k \in CallsOf("delegate_to_model") :
          /\ k <= Len(config.expectations)
          /\ calls[k].args = ArgsFor(config.expectations[k])
    /\ pc = "route" => Len(calls) = idx - 1
    /\ pc = "routeWait" =>
          /\ Len(calls) = idx
          /\ IsPending(calls[idx].outcome)
    /\ PcRank(pc) >= 2 =>
          Cardinality(CallsOf("delegate_to_model")) = Len(config.expectations)

C12_Witness ==
    /\ pc = "routeWait"
    /\ idx = 2
    /\ CallFailed(calls[1])
    /\ IsPending(calls[2].outcome)
    /\ calls[2].args # calls[1].args

(* C13: the stages run in the order Route, Telemetry, Vote and never go    *)
(* back: the telemetry call is issued only after every routing call has    *)
(* settled, the vote call only after the telemetry call has settled or was *)
(* skipped, no routing call follows the Route stage, and no two calls      *)
(* overlap.                                                                *)
C13_StagesInOrder ==
    /\ [](\A i \in 1..Len(calls) : \A j \in i..Len(calls) :
            ToolRank(calls[i].tool) <= ToolRank(calls[j].tool))
    /\ [](OnlyLastOutstanding)
    /\ [](CallsOf("weather_report") \cup CallsOf("consensus_vote") # {} =>
            Cardinality(CallsOf("delegate_to_model"))
               = Len(config.expectations))
    /\ [][NeverBack]_vars

C13_Witness ==
    /\ pc = "voteWait"
    /\ Len(calls) = 4
    /\ calls[3].tool = "weather_report"
    /\ CallFailed(calls[3])
    /\ calls[4].tool = "consensus_vote"
    /\ IsPending(calls[4].outcome)

(* C14: a run makes exactly |expectations| + (1 if telemetry is requested) *)
(* + (1 if a vote is requested) calls, whatever their outcomes: a stage    *)
(* not requested makes no call and a failed call is never repeated.        *)
C14_CallCount ==
    LET budget == Len(config.expectations)
                    + Bit(config.includeWeather = "true")
                    + Bit(config.includeVote = "true")
    IN /\ Len(calls) <= budget
       /\ Done => Len(calls) = budget
       /\ Cardinality(CallsOf("weather_report"))
             <= Bit(config.includeWeather = "true")
       /\ Cardinality(CallsOf("consensus_vote"))
             <= Bit(config.includeVote = "true")

C14_Witness ==
    /\ Done
    /\ Len(config.expectations) = 1
    /\ config.includeWeather = "true"
    /\ config.includeVote = "true"
    /\ Len(calls) = 3
    /\ CallFailed(calls[1])
    /\ CallFailed(calls[3])

(* C15: a malformed response is handled exactly like a rejected call: in   *)
(* the Route stage it leaves the same synthetic ERROR validation, in the   *)
(* Telemetry or Vote stage the same null field, and the run goes on.       *)
C15_MalformedLikeRejected ==
    Done =>
        /\ \A k \in CallsOf("delegate_to_model") :
              (calls[k].outcome.rejected \/ CallFailed(calls[k])) =>
                  report.validations[k] =
                      ErrorValidation(config.expectations[k])
        /\ \A k \in CallsOf("weather_report") :
              (calls[k].outcome.rejected \/ CallFailed(calls[k])) =>
                  report.weather = Null
        /\ \A k \in CallsOf("consensus_vote") :
              (calls[k].outcome.rejected \/ CallFailed(calls[k])) =>
                  report.voteResult = Null

C15_Witness ==
    /\ Done
    /\ Len(config.expectations) = 2
    /\ config.expectations[1] = config.expectations[2]
    /\ calls[1].outcome.rejected
    /\ ~calls[2].outcome.rejected /\ CallFailed(calls[2])
    /\ report.validations[1] = report.validations[2]
    /\ \E k \in CallsOf("weather_report") :
          ~calls[k].outcome.rejected /\ CallFailed(calls[k])
    /\ \E k \in CallsOf("consensus_vote") :
          ~calls[k].outcome.rejected /\ CallFailed(calls[k])
    /\ report.weather = Null
    /\ report.voteResult = Null

----------------------------------------------------------------------------
(* Vocabulary of the properties of the exported functions *)

MisroutedIndexes(vs) == {k \in 1..Len(vs) : ~vs[k].correct}

MisroutedAreTheWrongOnes ==
    (fnArg.fn = "getMisrouted" /\ Returned) =>
        LET vs == fnArg.validations
            wrong == MisroutedIndexes(vs)
            out == fnRet.value
        IN /\ ~fnRet.threw
           /\ Len(out) = Cardinality(wrong)
           /\ \A k \in wrong :
                 out[Cardinality({i \in wrong : i <= k})] = vs[k]
           /\ wrong = {} => out = <<>>

ArgumentKept == fnArg' = fnArg

(* p is the fraction c/n as a percentage rounded to a whole number, halves up *)
IsRoundedPct(p, c, n) ==
    /\ 2 * (p * n - 100 * c) <= n
    /\ 2 * (p * n - 100 * c) > -n

(* C16: getMisrouted returns exactly the validations whose correctness     *)
(* flag is false, in their original relative order, and the empty list     *)
(* when all are correct; the list it was given is left as it was.          *)
C16_GetMisrouted ==
    /\ []MisroutedAreTheWrongOnes
    /\ [][ArgumentKept]_vars

C16_Witness ==
    /\ fnArg.fn = "getMisrouted"
    /\ Returned
    /\ Len(fnArg.validations) = 3
    /\ ~fnArg.validations[1].correct
    /\ fnArg.validations[2].correct
    /\ ~fnArg.validations[3].correct
    /\ fnArg.validations[1] # fnArg.validations[3]
    /\ fnRet.value = <<fnArg.validations[1], fnArg.validations[3]>>

(* C17: weatherConfirms returns false when the snapshot has no mapping     *)
(* list, false when the list has no entry for the category, and true only  *)
(* when an entry for that category recommends exactly the expected         *)
(* destination; it makes no call.                                          *)
C17_WeatherConfirms ==
    (fnArg.fn = "weatherConfirms" /\ Returned) =>
        LET w == fnArg.weather
            ms == w.recommendedMappings
            forCategory == {k \in 1..Len(ms) : ms[k].category = fnArg.category}
        IN /\ ~fnRet.threw
           /\ ~w.hasMappings => fnRet.value = FALSE
           /\ forCategory = {} => fnRet.value = FALSE
           /\ fnRet.value = TRUE =>
                 /\ w.hasMappings
                 /\ \E k \in forCategory :
                       ms[k].recommendedCli = fnArg.expectedCli
           /\ (w.hasMappings /\ Cardinality(forCategory) = 1) =>
                 fnRet.value =
                    (\A k \in forCategory :
                        ms[k].recommendedCli = fnArg.expectedCli)
           /\ calls = <<>>

C17_Witness ==
    /\ fnArg.fn = "weatherConfirms"
    /\ Returned
    /\ fnRet.value = TRUE
    /\ Len(fnArg.weather.recommendedMappings) = 2
    /\ fnArg.weather.recommendedMappings[1].category # fnArg.category
    /\ fnArg.weather.recommendedMappings[1].recommendedCli # fnArg.expectedCli

(* C18: voteOnQuality makes exactly one consensus_vote call; its proposal  *)
(* is determined by the validation list: the percentage of correct         *)
(* validations rounded to a whole number with the correct and total        *)
(* counts, one line per validation in list order with its category,        *)
(* CORRECT or WRONG, and the got and expected strings, then the approval   *)
(* question; the call carries the given strategy, quickMode = true and     *)
(* simulateVotes = false.                                                  *)
C18_VoteCall ==
    fnArg.fn = "voteOnQuality" =>
        LET vs == fnArg.validations
            n == Len(vs)
            c == NumCorrect(vs)
        IN /\ Len(calls) <= 1
           /\ Returned => Len(calls) = 1
           /\ \A k \in 1..Len(calls) :
                 LET a == calls[k].args
                     p == a.proposal
                 IN /\ calls[k].tool = "consensus_vote"
                    /\ a.strategy = IF fnArg.strategy = "undefined"
                                    THEN "simple_majority"
                                    ELSE fnArg.strategy
                    /\ a.quickMode = TRUE
                    /\ a.simulateVotes = FALSE
                    /\ p.correct = c
                    /\ p.total = n
                    /\ n = 0 => p.accuracy = 0
                    /\ n > 0 => IsRoundedPct(p.accuracy, c, n)
                    /\ Len(p.summary) = n
                    /\ \A j \in 1..n :
                          /\ p.summary[j].category = vs[j].category
                          /\ p.summary[j].verdict = "CORRECT" <=> vs[j].correct
                          /\ p.summary[j].verdict = "WRONG" <=> ~vs[j].correct
                          /\ p.summary[j].got = vs[j].recommended
                          /\ p.summary[j].expected = vs[j].expected
                    /\ p.question = "Should we approve this routing quality?"

C18_Witness ==
    /\ fnArg.fn = "voteOnQuality"
    /\ Returned
    /\ fnRet.threw
    /\ fnArg.strategy = "unanimous"
    /\ Len(fnArg.validations) = 3
    /\ NumCorrect(fnArg.validations) = 2
    /\ Len(calls) = 1
    /\ calls[1].args.strategy = "unanimous"
    /\ calls[1].args.proposal.summary[2].verdict = "WRONG"

(* every number in v is finite and no property or element is undefined *)
RECURSIVE IsJsonValue(_)
IsJsonValue(v) ==
    CASE v.t = "undefined" -> FALSE
      [] v.t = "number" -> v.finite
      [] v.t = "array" ->
            \A k \in 1..Len(v.items) : IsJsonValue(v.items[k])
      [] v.t = "object" ->
            \A k \in 1..Len(v.props) : IsJsonValue(v.props[k].value)
      [] OTHER -> TRUE

RoundTrips == JSONparse(fnRet.value) = fnArg.report

PropertyOf(obj, key) ==
    LET k == CHOOSE i \in 1..Len(obj.props) : obj.props[i].key = key
    IN obj.props[k].value

MemberOf(doc, key) ==
    LET k == CHOOSE i \in 1..Len(doc.members) : doc.members[i].key = key
    IN doc.members[k].value

----------------------------------------------------------------------------
(* Vocabulary of the property of two runs *)

(* the report of a run with configuration cfg whose calls, in the order it *)
(* made them, settled as the log cs says                                   *)
AloneReport(cfg, cs) ==
    LET exps == cfg.expectations
        vs == [k \in 1..Len(exps) |->
                 LET v == routeAndValidate(exps[k], cs[k].outcome)
                 IN IF v.threw THEN ErrorValidation(exps[k]) ELSE v.value]
        wAt == Len(exps) + 1
        vAt == wAt + Bit(cfg.includeWeather = "true")
        w == IF cfg.includeWeather = "true"
             THEN LET x == fetchWeather(cs[wAt].outcome)
                  IN IF x.threw THEN Null ELSE x.value
             ELSE Null
        vote == IF cfg.includeVote = "true"
                THEN LET x == voteOnQuality(cs[vAt].outcome)
                     IN IF x.threw THEN Null ELSE x.value
                ELSE Null
    IN [validations |-> vs, accuracy |-> computeAccuracy(vs),
        weather |-> w, voteResult |-> vote]

OneRunResumes ==
    \E r \in Runs : \A q \in Runs \ {r} : runs'[q] = runs[q]

(* C19: two runs of runOraclePipeline in flight together, their calls      *)
(* interleaved in any order, share no state: a step of one run changes     *)
(* nothing of the other, and the report of each run is the report its own  *)
(* configuration and the results of its own calls determine, the one it    *)
(* would return if it ran alone with those results.                        *)
C19_RunsIndependent ==
    /\ [](\A r \in DOMAIN runs :
            runs[r].pc = "done" =>
                runs[r].report = AloneReport(runs[r].config, runs[r].calls))
    /\ [][OneRunResumes]_vars

C19_Witness ==
    /\ runs # <<>>
    /\ runs[1].pc = "done"
    /\ runs[2].pc = "voteWait"
    /\ Len(runs[1].report.validations) = 1
    /\ runs[1].report.validations[1].correct
    /\ Len(runs[2].validations) = 1
    /\ ~runs[2].validations[1].correct
    /\ runs[1].config.expectations = runs[2].config.expectations
    /\ Len(runs[1].calls) = 3
    /\ runs[1].report.weather # Null

----------------------------------------------------------------------------
(* C21: the proposal the Vote stage of runOraclePipeline submits is built  *)
(* from exactly the validations of the report: every entry, in order, a    *)
(* synthetic ERROR validation shown as WRONG; the correct and total counts *)
(* of its headline are those of the returned report's validations, and the *)
(* strategy passed is the configured one.                                  *)
C21_VoteOnReportValidations ==
    \A k \in CallsOf("consensus_vote") :
        LET a == calls[k].args
            p == a.proposal
        IN /\ p.total = Len(config.expectations)
           /\ p.total = Len(validations)
           /\ p.correct = NumCorrect(validations)
           /\ Len(p.summary) = Len(validations)
           /\ \A j \in 1..Len(validations) :
                 /\ p.summary[j].category = validations[j].category
                 /\ p.summary[j].got = validations[j].recommended
                 /\ p.summary[j].expected = validations[j].expected
                 /\ p.summary[j].verdict = "CORRECT" <=> validations[j].correct
                 /\ CallFailed(calls[j]) =>
                       /\ p.summary[j].got = ERROR
                       /\ p.summary[j].verdict = "WRONG"
           /\ a.strategy = IF config.voteStrategy = "undefined"
                           THEN "simple_majority"
                           ELSE config.voteStrategy
           /\ Done =>
                 /\ p.total = Len(report.validations)
                 /\ p.correct = NumCorrect(report.validations)
                 /\ \A j \in 1..Len(report.validations) :
                       p.summary[j].got = report.validations[j].recommended

C21_Witness ==
    /\ Done
    /\ config.voteStrategy = "unanimous"
    /\ Len(report.validations) = 2
    /\ CallFailed(calls[1])
    /\ report.validations[2].correct
    /\ \E k \in CallsOf("consensus_vote") :
          /\ calls[k].args.strategy = "unanimous"
          /\ calls[k].args.proposal.total = 2
          /\ calls[k].args.proposal.correct = 1
          /\ calls[k].args.proposal.summary[1].verdict = "WRONG"
          /\ calls[k].args.proposal.summary[1].got = ERROR

----------------------------------------------------------------------------
Rendered ==
    /\ fnArg.fn \in {"generateMarkdownReport", "generateTextReport"}
    /\ Returned

(* C22 as stated: for every validation list the whole-number percentage of *)
(* the vote proposal's headline, rounded from correct/total, equals the    *)
(* percentage the markdown and text reports show, rounded from the         *)
(* report's three-decimal accuracy.                                        *)
C22_SamePercentage ==
    Rendered =>
        fnRet.value.accuracyPercent
            = voteProposal(fnArg.report.validations).accuracy

(* C22, amended: the percentage of the proposal's headline and the         *)
(* percentage of the markdown and text reports are equal whenever the      *)
(* report's three-decimal accuracy does not end in the digit 5, and never  *)
(* differ by more than one; when the accuracy ends in 5 the two can differ *)
(* by one (5 correct of 11: 45 in the proposal, 46 in the reports).        *)
C22_SamePercentageUnlessHalf ==
    Rendered =>
        LET shown == fnRet.value.accuracyPercent
            proposed == voteProposal(fnArg.report.validations).accuracy
        IN /\ fnArg.report.accuracy.thousandths % 10 # 5 => shown = proposed
           /\ shown - proposed \in {-1, 0, 1}

C22_Witness ==
    /\ Rendered
    /\ Len(fnArg.report.validations) = 7
    /\ NumCorrect(fnArg.report.validations) = 3
    /\ fnArg.report.accuracy.thousandths = 429
    /\ fnRet.value.accuracyPercent = 43
    /\ voteProposal(fnArg.report.validations).accuracy = 43

----------------------------------------------------------------------------
(* C23: a run whose configuration has no expectation is not rejected: it   *)
(* makes no routing call and returns a report with no validation and       *)
(* accuracy 0; the Telemetry and Vote stages still run when requested, and *)
(* the vote proposal then states 0% with 0 of 0 correct.                   *)
C23_EmptyExpectations ==
    config.expectations = <<>> =>
        /\ status # "rejected"
        /\ CallsOf("delegate_to_model") = {}
        /\ \A k \in CallsOf("consensus_vote") :
              /\ calls[k].args.proposal.accuracy = 0
              /\ calls[k].args.proposal.correct = 0
              /\ calls[k].args.proposal.total = 0
              /\ calls[k].args.proposal.summary = <<>>
        /\ Done =>
              /\ status = "fulfilled"
              /\ report.validations = <<>>
              /\ report.accuracy.thousandths = 0
              /\ config.includeWeather = "true" <=>
                    CallsOf("weather_report") # {}
              /\ config.includeVote = "true" <=>
                    CallsOf("consensus_vote") # {}

C23_Witness ==
    /\ Done
    /\ config.expectations = <<>>
    /\ config.includeWeather = "true"
    /\ config.includeVote = "true"
    /\ Len(calls) = 2
    /\ calls[1].tool = "weather_report"
    /\ report.weather # Null
    /\ calls[2].args.proposal.total = 0
    /\ report.voteResult # Null
    /\ report.validations = <<>>

(* C24: when the mapping list of a snapshot has several entries for one    *)
(* category, weatherConfirms decides on the first of them alone: it        *)
(* returns true iff the first entry for the category has the expected      *)
(* destination, whatever a later entry for the same category says.         *)
C24_FirstEntryDecides ==
    (fnArg.fn = "weatherConfirms" /\ Returned) =>
        LET ms == fnArg.weather.recommendedMappings
            forCategory == {k \in 1..Len(ms) : ms[k].category = fnArg.category}
        IN forCategory # {} =>
              LET first == CHOOSE k \in forCategory :
                              \A i \in forCategory : k <= i
              IN fnRet.value =
                    (ms[first].recommendedCli = fnArg.expectedCli)

C24_Witness ==
    /\ fnArg.fn = "weatherConfirms"
    /\ Returned
    /\ Len(fnArg.weather.recommendedMappings) = 3
    /\ \A k \in 1..3 :
          fnArg.weather.recommendedMappings[k].category = fnArg.category
    /\ fnArg.weather.recommendedMappings[1].recommendedCli # fnArg.expectedCli
    /\ fnArg.weather.recommendedMappings[2].recommendedCli = fnArg.expectedCli
    /\ fnRet.value = FALSE

====
